---- MODULE Spec2Model ----
(***************************************************************************)
(* Model of generate_sprites.py: the supersampled rendering pipeline       *)
(* (supersample_draw), the exporter (ensure_imageset, save_asset), the     *)
(* seeded sprite generators, the outlined primitives and the batch run by  *)
(* main.                                                                   *)
(*                                                                         *)
(* Four specifications share the variables and the pipeline steps:         *)
(*   Spec     the process: main runs its generator list once;              *)
(*   SpecGen  a caller renders the batch's sprites (supersample_draw with  *)
(*            each generator's draw function) in any order, repeatedly;    *)
(*   SpecLib  a caller uses supersample_draw and save_asset with sizes     *)
(*            drawn from a bounded set;                                    *)
(*   SpecPrim a caller uses the drawing primitives and the generators'     *)
(*            colour arithmetic with inputs drawn from bounded sets.       *)
(***************************************************************************)
EXTENDS Integers, Sequences, FiniteSets, TLC

VARIABLES
    pc,       \* position of the running code
    caller,   \* "main" (the batch) or "harness" (a direct caller)
    gi,       \* main: index of the current entry of generators
    todo,     \* main: sprites the current generator still has to produce
    job,      \* arguments of the current supersample_draw / save_asset
    canvas,   \* supersample_draw: the supersampled image being drawn
    img,      \* the base (@3x) image returned by supersample_draw
    img2,     \* save_asset: the @2x image
    rng,      \* state of the shared random generator (module random)
    fs,       \* Assets.xcassets: one bundle directory per sprite name
    out,      \* lines printed so far
    exit,     \* exit status of the process, Running while it runs
    ref,      \* history: an earlier result of supersample_draw
    prim      \* outcome of the last primitive / colour derivation

vars == <<pc, caller, gi, todo, job, canvas, img, img2, rng, fs, out, exit,
          ref, prim>>

(***************************************************************************)
(* Constants of the program and bounds of the model                        *)
(***************************************************************************)
SUPERSAMPLE == 4

\* the unseeded generator starts in one of MaxEntropy + 1 states
MaxEntropy == 1
\* SpecLib: base widths and heights range over 1..MaxDim
MaxDim == 3
\* SpecPrim: coordinates, radii and widths range over -MaxCoord..MaxCoord
MaxCoord == 2
\* SpecPrim: outline widths range over 0..MaxOutline
MaxOutline == 1
\* SpecPrim: outline widths of text range over 0..MaxTextOutline
MaxTextOutline == 3
\* SpecPrim: each randint range is sampled at MaxSamples + 1 values, its
\* ends included
MaxSamples == 1
\* fractional bits kept by the model of a float quotient
FracBits == 16

Running == 0 - 1
NoSeed == 0 - 1

(***************************************************************************)
(* The sprites of the batch                                                *)
(***************************************************************************)
\* a draw function: the closure's code (f), its captured variant, frame or
\* colour (v) and text (t)
Fn(f, v, t) == [f |-> f, v |-> v, t |-> t]

NoFn == Fn("", <<>>, "")

\* one supersample_draw(w, h, fn) followed by save_asset(img, name)
Sprite(name, w, h, fn) == [name |-> name, w |-> w, h |-> h, fn |-> fn]

generate_cow_walk ==
    [variant \in 1..2 |->
        Sprite(IF variant = 1 THEN "cow_walk_1" ELSE "cow_walk_2", 156, 132,
               Fn("draw_cow", <<variant>>, ""))]

generate_cow_drowning == <<Sprite("cow_drowning", 156, 108, Fn("cow_drowning", <<>>, ""))>>

generate_farmer == <<Sprite("farmer", 180, 216, Fn("farmer", <<>>, ""))>>

generate_background_grass ==
    <<Sprite("background_grass", 512, 512, Fn("background_grass", <<>>, ""))>>

generate_safe_pasture == <<Sprite("safe_pasture", 512, 512, Fn("safe_pasture", <<>>, ""))>>

generate_ditch_water ==
    [frame \in 1..3 |->
        Sprite(CASE frame = 1 -> "ditch_water_1" [] frame = 2 -> "ditch_water_2"
                 [] OTHER -> "ditch_water_3",
               512, 160, Fn("ditch_water", <<frame>>, ""))]

generate_ditch_edge == <<Sprite("ditch_edge", 512, 24, Fn("ditch_edge", <<>>, ""))>>

generate_fence_post == <<Sprite("fence_post", 24, 120, Fn("fence_post", <<>>, ""))>>

generate_fence_rail == <<Sprite("fence_rail", 512, 18, Fn("fence_rail", <<>>, ""))>>

generate_gate_door == <<Sprite("gate_door", 240, 108, Fn("gate_door", <<>>, ""))>>

generate_gate_post == <<Sprite("gate_post", 36, 144, Fn("gate_post", <<>>, ""))>>

generate_clouds ==
    [variant \in 1..3 |->
        Sprite(CASE variant = 1 -> "cloud_1" [] variant = 2 -> "cloud_2"
                 [] OTHER -> "cloud_3",
               240, 120, Fn("clouds", <<variant>>, ""))]

generate_title_logo == <<Sprite("title_logo", 900, 240, Fn("title_logo", <<>>, ""))>>

generate_button(name, text, color) == <<Sprite(name, 600, 180, Fn("button", color, text))>>

generate_heart(name, color, alpha) ==
    <<Sprite(name, 84, 78, Fn("heart", color \o <<alpha>>, ""))>>

generate_score_badge == <<Sprite("score_badge", 480, 120, Fn("score_badge", <<>>, ""))>>

generate_game_over_banner ==
    <<Sprite("game_over_banner", 900, 240, Fn("game_over_banner", <<>>, ""))>>

generate_gate_indicators ==
    <<Sprite("gate_indicator_open", 48, 48, Fn("gate_indicator", <<40, 200, 40>>, "")),
      Sprite("gate_indicator_closed", 48, 48, Fn("gate_indicator", <<200, 40, 40>>, ""))>>

\* mutant: every particle is saved under the same name
generate_particle_one_name(name, size_px, draw_func) ==
    Sprite("particle", size_px, size_px, Fn(draw_func, <<>>, ""))

generate_particle(name, size_px, draw_func) ==
    Sprite(name, size_px, size_px, Fn(draw_func, <<>>, ""))

generate_particles ==
    <<generate_particle("particle_splash", 16, "splash"),
      generate_particle("particle_dust", 12, "dust"),
      generate_particle("particle_grass", 8, "grass_blade"),
      generate_particle("particle_star", 16, "star"),
      generate_particle("particle_sparkle", 8, "sparkle")>>

\* main's list: (label, generator)
Entry(label, gen) == [label |-> label, gen |-> gen]

generators ==
    <<Entry("Cow walk sprites", generate_cow_walk),
      Entry("Cow drowning sprite", generate_cow_drowning),
      Entry("Farmer sprite", generate_farmer),
      Entry("Background grass", generate_background_grass),
      Entry("Safe pasture", generate_safe_pasture),
      Entry("Ditch water (3 frames)", generate_ditch_water),
      Entry("Ditch edge", generate_ditch_edge),
      Entry("Fence post", generate_fence_post),
      Entry("Fence rail", generate_fence_rail),
      Entry("Gate door", generate_gate_door),
      Entry("Gate post", generate_gate_post),
      Entry("Clouds (3 variants)", generate_clouds),
      Entry("Title logo", generate_title_logo),
      Entry("Play button", generate_button("button_play", "PLAY", <<60, 180, 60>>)),
      Entry("Replay button", generate_button("button_replay", "PLAY AGAIN", <<60, 160, 60>>)),
      Entry("Heart full", generate_heart("heart_full", <<220, 40, 40>>, 255)),
      Entry("Heart empty", generate_heart("heart_empty", <<120, 120, 120>>, 100)),
      Entry("Score badge", generate_score_badge),
      Entry("Game over banner", generate_game_over_banner),
      Entry("Gate indicators", generate_gate_indicators),
      Entry("Particle effects", generate_particles)>>

RECURSIVE Flatten(_, _)
Flatten(es, i) == IF i > Len(es) THEN <<>> ELSE es[i].gen \o Flatten(es, i + 1)

\* every sprite of the batch, in the order main produces them
BatchSprites == Flatten(generators, 1)

Names == {BatchSprites[i].name : i \in 1..Len(BatchSprites)}

(***************************************************************************)
(* The shared random generator                                             *)
(*                                                                         *)
(* The state is (key, ctr): key is set by seed(), ctr counts the values    *)
(* drawn since. A draw is a fixed function of the state, so equal states   *)
(* give equal values and unequal states need not.                          *)
(***************************************************************************)
Seed(n) == [key |-> n, ctr |-> 0]

EntropyStates == {[key |-> 5000 + e, ctr |-> 0] : e \in 0..MaxEntropy}

RandBits(r) == (((r.key + 1) * 7919 + r.ctr * 104729) % 65536) \div 16

\* the state after n draws
Advance(r, n) == [r EXCEPT !.ctr = @ + n]

\* random.randint(lo, hi) as the i-th draw after state r
RandInt(r, i, lo, hi) == lo + (RandBits(Advance(r, i)) % (hi - lo + 1))

(***************************************************************************)
(* The random draws of each draw function                                  *)
(***************************************************************************)
\* the argument of random.seed in the draw function, NoSeed when it has none
SeedOf(fn) ==
    CASE fn.f = "draw_cow" -> fn.v[1] * 42
      [] fn.f = "cow_drowning" -> 99
      [] fn.f = "background_grass" -> 7
      [] fn.f = "safe_pasture" -> 13
      [] fn.f = "ditch_water" -> fn.v[1] * 100
      [] fn.f = "ditch_edge" -> 55
      [] fn.f = "fence_post" -> 22
      [] fn.f = "fence_rail" -> 33
      [] fn.f = "gate_post" -> 44
      [] fn.f = "clouds" -> fn.v[1] * 77
      [] OTHER -> NoSeed

\* n iterations of a loop body that draws from the ranges r in order
Block(n, r) == [n |-> n, r |-> r]

\* len(range(0, stop, step))
RangeLen(stop, step) == (stop + step - 1) \div step

\* the randint / choice calls of a draw function on a w x h canvas at scale s,
\* in program order
DrawPlan(fn, w, h, s) ==
    CASE fn.f = "draw_cow" ->
           <<Block(4, << <<-30 * s, 30 * s>>, <<-15 * s, 15 * s>>, <<6 * s, 12 * s>> >>)>>
      [] fn.f = "cow_drowning" ->
           <<Block(3, << <<-25 * s, 25 * s>>, <<-10 * s, 5 * s>>, <<5 * s, 10 * s>> >>)>>
      [] fn.f = "background_grass" ->
           <<Block(200, << <<0, w>>, <<0, h>>, <<6 * s, 14 * s>>, <<-3 * s, 3 * s>>,
                           <<-20, 20>> >>)>>
      [] fn.f = "safe_pasture" ->
           <<Block(150, << <<0, w>>, <<0, h>>, <<4 * s, 10 * s>>, <<-2 * s, 2 * s>> >>),
             Block(30, << <<0, w>>, <<0, h>>, <<0, 3>>, <<3 * s, 5 * s>> >>)>>
      [] fn.f = "ditch_water" ->
           <<Block(20, << <<0, w>>, <<0, h>>, <<8 * s, 20 * s>> >>)>>
      [] fn.f = "ditch_edge" ->
           <<Block(80, << <<0, w>>, <<0, h>>, <<1 * s, 3 * s>>, <<-20, 20>> >>),
             Block(RangeLen(w, 3 * s), << <<2 * s, 6 * s>>, <<-1 * s, 1 * s>> >>)>>
      [] fn.f = "fence_post" ->
           <<Block(8, << <<4 * s, w - 4 * s>>, <<0, h \div 4>>, <<-2 * s, 2 * s>>,
                         <<(h * 3) \div 4, h>> >>)>>
      [] fn.f = "fence_rail" ->
           <<Block(15, << <<3 * s, h - 3 * s>>, <<0, w \div 3>>, <<(w * 2) \div 3, w>> >>)>>
      [] fn.f = "gate_post" ->
           <<Block(6, << <<5 * s, w - 5 * s>>, <<-s, s>> >>)>>
      [] fn.f = "clouds" ->
           <<Block(7, << <<-5, 5>>, <<-3, 3>>, <<-3, 3>> >>)>>
      [] OTHER -> <<>>

BlockLen(b) == b.n * Len(b.r)

RECURSIVE PlanLen(_, _)
PlanLen(plan, k) == IF k > Len(plan) THEN 0 ELSE BlockLen(plan[k]) + PlanLen(plan, k + 1)

\* the range of the i-th draw of a plan, looking from block k on
RECURSIVE RangeAt(_, _, _)
RangeAt(plan, k, i) ==
    IF i <= BlockLen(plan[k])
    THEN plan[k].r[((i - 1) % Len(plan[k].r)) + 1]
    ELSE RangeAt(plan, k + 1, i - BlockLen(plan[k]))

\* mutant: the draws are taken before (or without) the call of random.seed
SeedTooLate(fn, r) == r

\* the generator state a draw function draws from: it seeds first when it
\* seeds at all
SeedFirst(fn, r) == IF SeedOf(fn) = NoSeed THEN r ELSE Seed(SeedOf(fn))

\* running a draw function from generator state r: the values it consumes
\* and the state it leaves
DrawFunc(fn, r, w, h, s) ==
    LET plan == DrawPlan(fn, w, h, s)
        n == PlanLen(plan, 1)
        r0 == SeedFirst(fn, r)
    IN  [rand |-> [i \in 1..n |->
                     LET rg == RangeAt(plan, 1, i) IN RandInt(r0, i, rg[1], rg[2])],
         rng |-> Advance(r0, n)]

(***************************************************************************)
(* The wave field of generate_ditch_water                                  *)
(***************************************************************************)
\* math.sin of an angle given in hundredths of a radian, in thousandths
\* (Bhaskara's approximation on each half period)
SinMilli(a) ==
    LET x == a % 628
        y == IF x < 314 THEN x ELSE x - 314
        p == y * (314 - y)
        v == (16 * p * 1000) \div (5 * 314 * 314 - 4 * p)
    IN  IF x < 314 THEN v ELSE 0 - v

\* int(x) of a quotient n / d: truncation towards zero
TruncDiv(n, d) == IF n >= 0 THEN n \div d ELSE 0 - ((0 - n) \div d)

\* mutant: every frame is drawn at the phase of frame 1
PhaseOfFirstFrame(frame) == 210

\* phase = _frame * 2.1, in hundredths of a radian
Phase(frame) == frame * 210

\* wy = wy_base + int(math.sin(wx / (30 * s) + phase) * 4 * s)
WaveY(wy_base, wx, s, frame) ==
    wy_base + TruncDiv(SinMilli((wx * 100) \div (30 * s) + Phase(frame)) * 4 * s, 1000)

\* points = [(wx, wy) for wx in range(0, w, 4 * s)]
WavePoints(wy_base, w, s, frame) ==
    [k \in 1..RangeLen(w, 4 * s) |-> <<(k - 1) * 4 * s, WaveY(wy_base, (k - 1) * 4 * s, s, frame)>>]

\* the rows of wave points the draw function of generate_ditch_water strokes
\* on a w x h canvas: for wy_base in range(0, h, 12 * s), when len(points) > 1
WaveField(fn, w, h, s) ==
    IF fn.f = "ditch_water" /\ RangeLen(w, 4 * s) > 1
    THEN [r \in 1..RangeLen(h, 12 * s) |-> WavePoints((r - 1) * 12 * s, w, s, fn.v[1])]
    ELSE <<>>

(***************************************************************************)
(* Images and the asset catalogue                                          *)
(***************************************************************************)
\* Image.new("RGBA", (w, h)): a blank canvas no draw function has touched
NewCanvas(w, h) == [w |-> w, h |-> h, calls |-> 0, args |-> <<>>, fn |-> NoFn, rand |-> <<>>,
                    wave |-> <<>>]

NoCanvas == NewCanvas(0, 0)

\* image.resize((w, h), Image.LANCZOS): a w x h image filtered from `image`
Resize(image, w, h) == [w |-> w, h |-> h, src |-> image]

NoImage == Resize(NoCanvas, 0, 0)
NoImage2 == Resize(NoImage, 0, 0)

\* a / b on integers: the float nearest the quotient, in units of 2^-FracBits
TrueDiv(a, b) ==
    LET scaled == a * (2 ^ FracBits)
        q == scaled \div b
        rem == scaled % b
    IN  IF 2 * rem > b \/ (2 * rem = b /\ q % 2 = 1) THEN q + 1 ELSE q

\* int(x) of a non-negative float
IntTrunc(x) == x \div (2 ^ FracBits)

\* mutant: round(d * 2 / 3) instead of int(d * 2 / 3)
TwoThirdsRounded(d) == IntTrunc(TrueDiv(d * 2, 3) + 2 ^ (FracBits - 1))

\* int(d * 2 / 3)
TwoThirds(d) == IntTrunc(TrueDiv(d * 2, 3))

\* w2 = int(img_at3x.width * 2 / 3); h2 = int(img_at3x.height * 2 / 3)
At2xSize(image) == <<TwoThirds(image.w), TwoThirds(image.h)>>

\* mutant: the @2x image is filtered from the supersampled source
DownscaleSource(image) == Resize(image.src, At2xSize(image)[1], At2xSize(image)[2])

\* img_at3x.resize((w2, h2), Image.LANCZOS)
Downscale(image) == Resize(image, At2xSize(image)[1], At2xSize(image)[2])

File2x(name) == name \o "@2x.png"
File3x(name) == name \o "@3x.png"
ManifestFile == "Contents.json"

\* mutant: the manifest lists the @3x file only
ContentsOnly3x(name) ==
    [images |-> <<[filename |-> name \o "@3x.png", idiom |-> "universal", scale |-> "3x"]>>,
     info |-> [author |-> "xcode", version |-> 1]]

\* the dictionary ensure_imageset dumps into Contents.json
Contents(name) ==
    [images |-> <<[filename |-> File2x(name), idiom |-> "universal", scale |-> "2x"],
                  [filename |-> File3x(name), idiom |-> "universal", scale |-> "3x"]>>,
     info |-> [author |-> "xcode", version |-> 1]]

\* what a write that failed part-way leaves in the file
Truncated == [truncated |-> TRUE]

NoFiles == [x \in {} |-> Truncated]

NoBundle == [exists |-> FALSE, files |-> NoFiles]

\* mutant: an existing file is kept instead of overwritten
WriteFileIfAbsent(bundle, file, content) == [bundle EXCEPT !.files = @ @@ (file :> content)]

\* open(path, "w") and image.save(path): the file is created or replaced
WriteFile(bundle, file, content) == [bundle EXCEPT !.files = (file :> content) @@ @]

\* the bundle a completed save_asset(image, name) leaves in an empty directory
Saved(name, image) ==
    [exists |-> TRUE,
     files |-> (ManifestFile :> Contents(name))
               @@ (File3x(name) :> image)
               @@ (File2x(name) :> Downscale(image))]

\* the output of an earlier run of the script that drew different pictures
EarlierRun ==
    [n \in Names |->
        LET i == CHOOSE k \in 1..Len(BatchSprites) : BatchSprites[k].name = n
            sp == BatchSprites[i]
        IN  Saved(n, Resize([NewCanvas(sp.w * SUPERSAMPLE, sp.h * SUPERSAMPLE)
                                EXCEPT !.calls = 1, !.fn = Fn("earlier", <<>>, "")],
                            sp.w, sp.h))]

NoJob == Sprite("", 0, 0, NoFn)
NoRef == [img |-> NoImage, mixed |-> FALSE]
NoPrim == [op |-> "", args |-> <<>>, lib |-> <<>>, painted |-> <<>>, raised |-> FALSE,
           colours |-> <<>>]

(***************************************************************************)
(* Initial states                                                          *)
(***************************************************************************)
InitLocals ==
    /\ gi = 0
    /\ todo = <<>>
    /\ job = NoJob
    /\ canvas = NoCanvas
    /\ img = NoImage
    /\ img2 = NoImage2
    /\ rng \in EntropyStates
    /\ out = <<>>
    /\ exit = Running
    /\ ref = NoRef
    /\ prim = NoPrim

\* the process starts main; the catalogue is empty or holds an earlier run
Init ==
    /\ pc = "start"
    /\ caller = "main"
    /\ fs \in {[n \in Names |-> NoBundle], EarlierRun}
    /\ InitLocals

\* the module has been imported and its functions are called directly
InitHarness ==
    /\ pc = "idle"
    /\ caller = "harness"
    /\ fs = [n \in Names |-> NoBundle]
    /\ InitLocals

(***************************************************************************)
(* An exception leaving the current function: nothing in the program       *)
(* catches one, so under main the process ends with status 1; a direct     *)
(* caller gets the exception and goes on.                                  *)
(***************************************************************************)
\* mutant: main catches the exception and goes on with the next generator
RaiseSwallowed ==
    /\ pc' = IF caller = "main" THEN "loop" ELSE "idle"
    /\ exit' = exit
    /\ canvas' = NoCanvas
    /\ img2' = NoImage2
    /\ todo' = todo

Raise ==
    /\ pc' = IF caller = "main" THEN "failed" ELSE "idle"
    /\ exit' = IF caller = "main" THEN 1 ELSE exit
    /\ canvas' = NoCanvas
    /\ img2' = NoImage2
    /\ todo' = todo

(***************************************************************************)
(* supersample_draw(w3x, h3x, draw_func)                                   *)
(***************************************************************************)
\* mutant: the canvas is allocated at the base size
CanvasSizeUnscaled(j) == <<j.w, j.h>>

\* mutant: only the width is supersampled
CanvasSizeWidthOnly(j) == <<j.w * SUPERSAMPLE, j.h>>

\* sw, sh = w3x * SUPERSAMPLE, h3x * SUPERSAMPLE; img = Image.new(...)
CanvasSize(j) == <<j.w * SUPERSAMPLE, j.h * SUPERSAMPLE>>

AllocCanvas ==
    /\ pc = "new"
    /\ canvas' = NewCanvas(CanvasSize(job)[1], CanvasSize(job)[2])
    /\ pc' = "draw"
    /\ UNCHANGED <<caller, gi, todo, job, img, img2, rng, fs, out, exit, ref, prim>>

\* draw_func(img, draw, sw, sh, SUPERSAMPLE)
CallDrawFunc ==
    /\ pc = "draw"
    /\ LET d == DrawFunc(job.fn, rng, canvas.w, canvas.h, SUPERSAMPLE)
       IN  /\ canvas' = [canvas EXCEPT !.calls = @ + 1,
                                       !.args = <<canvas.w, canvas.h, SUPERSAMPLE>>,
                                       !.fn = job.fn,
                                       !.rand = d.rand,
                                       !.wave = WaveField(job.fn, canvas.w, canvas.h,
                                                          SUPERSAMPLE)]
           /\ rng' = d.rng
           /\ ref' = IF ref # NoRef /\ ref.img.src.fn # job.fn /\ Len(d.rand) > 0
                     THEN [ref EXCEPT !.mixed = TRUE]
                     ELSE ref
    /\ pc' = "resize"
    /\ UNCHANGED <<caller, gi, todo, job, img, img2, fs, out, exit, prim>>

\* the size of the image supersample_draw returns
BaseSize(j) == <<j.w, j.h>>

\* return img.resize((w3x, h3x), Image.LANCZOS); a generator goes on to
\* save_asset(img, name)
ReturnBase ==
    /\ pc = "resize"
    /\ img' = Resize(canvas, BaseSize(job)[1], BaseSize(job)[2])
    /\ canvas' = NoCanvas
    /\ pc' = IF caller = "main" THEN "mkdir" ELSE "idle"
    /\ UNCHANGED <<caller, gi, todo, job, img2, rng, fs, out, exit, ref, prim>>

(***************************************************************************)
(* save_asset(img_at3x, name), with ensure_imageset(name) inlined          *)
(***************************************************************************)
\* os.makedirs(d, exist_ok=True)
MakeDirs ==
    /\ pc = "mkdir"
    /\ fs' = [fs EXCEPT ![job.name].exists = TRUE]
    /\ pc' = "manifest"
    /\ UNCHANGED <<caller, gi, todo, job, canvas, img, img2, rng, out, exit, ref, prim>>

MakeDirsFails ==
    /\ pc = "mkdir"
    /\ Raise
    /\ UNCHANGED <<caller, gi, job, img, rng, fs, out, ref, prim>>

\* a write that fails leaves the file as it was (it could not be opened)
\* or truncated (it was opened and the write broke off)
FailedWrite(bundle, file) == {bundle, WriteFile(bundle, file, Truncated)}

\* with open(os.path.join(d, "Contents.json"), "w") as f: json.dump(contents, f)
WriteContents ==
    /\ pc = "manifest"
    /\ fs' = [fs EXCEPT ![job.name] = WriteFile(@, ManifestFile, Contents(job.name))]
    /\ pc' = "save3x"
    /\ UNCHANGED <<caller, gi, todo, job, canvas, img, img2, rng, out, exit, ref, prim>>

WriteContentsFails ==
    /\ pc = "manifest"
    /\ \E b \in FailedWrite(fs[job.name], ManifestFile) : fs' = [fs EXCEPT ![job.name] = b]
    /\ Raise
    /\ UNCHANGED <<caller, gi, job, img, rng, out, ref, prim>>

\* mutant: the @3x file is saved before the manifest is written
Save3xBeforeManifest ==
    /\ pc = "manifest"
    /\ fs' = [fs EXCEPT ![job.name] = WriteFile(@, File3x(job.name), img)]
    /\ pc' = "manifest"
    /\ UNCHANGED <<caller, gi, todo, job, canvas, img, img2, rng, out, exit, ref, prim>>

\* img_at3x.save(os.path.join(d, f"{name}@3x.png"))
Save3x ==
    /\ pc = "save3x"
    /\ fs' = [fs EXCEPT ![job.name] = WriteFile(@, File3x(job.name), img)]
    /\ pc' = "resize2x"
    /\ UNCHANGED <<caller, gi, todo, job, canvas, img, img2, rng, out, exit, ref, prim>>

Save3xFails ==
    /\ pc = "save3x"
    /\ \E b \in FailedWrite(fs[job.name], File3x(job.name)) : fs' = [fs EXCEPT ![job.name] = b]
    /\ Raise
    /\ UNCHANGED <<caller, gi, job, img, rng, out, ref, prim>>

\* img_at2x = img_at3x.resize((w2, h2), Image.LANCZOS): the library rejects
\* an empty target size
Resize2x ==
    /\ pc = "resize2x"
    /\ IF At2xSize(img)[1] > 0 /\ At2xSize(img)[2] > 0
       THEN /\ img2' = Downscale(img)
            /\ pc' = "save2x"
            /\ UNCHANGED <<todo, canvas, exit>>
       ELSE Raise
    /\ UNCHANGED <<caller, gi, job, img, rng, fs, out, ref, prim>>

\* img_at2x.save(os.path.join(d, f"{name}@2x.png")), then save_asset returns:
\* the generator goes on with its next sprite, or returns to main's loop
Save2x ==
    /\ pc = "save2x"
    /\ fs' = [fs EXCEPT ![job.name] = WriteFile(@, File2x(job.name), img2)]
    /\ img2' = NoImage2
    /\ IF caller = "main"
       THEN IF Len(todo) > 1
            THEN /\ todo' = Tail(todo)
                 /\ job' = todo[2]
                 /\ pc' = "new"
                 /\ gi' = gi
            ELSE /\ todo' = <<>>
                 /\ job' = job
                 /\ pc' = "loop"
                 /\ gi' = gi + 1
       ELSE /\ pc' = "saved"
            /\ UNCHANGED <<todo, job, gi>>
    /\ UNCHANGED <<caller, canvas, img, rng, out, exit, ref, prim>>

Save2xFails ==
    /\ pc = "save2x"
    /\ \E b \in FailedWrite(fs[job.name], File2x(job.name)) : fs' = [fs EXCEPT ![job.name] = b]
    /\ Raise
    /\ UNCHANGED <<caller, gi, job, img, rng, out, ref, prim>>

SupersampleDraw == AllocCanvas \/ CallDrawFunc \/ ReturnBase

SaveAsset ==
    \/ MakeDirs \/ WriteContents \/ Save3x \/ Resize2x \/ Save2x
    \/ MakeDirsFails \/ WriteContentsFails \/ Save3xFails \/ Save2xFails

(***************************************************************************)
(* main                                                                    *)
(***************************************************************************)
Progress(label) == "  Generating " \o label \o "..."

\* print("Generating sprites into", ASSETS_DIR); print()
MainStart ==
    /\ pc = "start"
    /\ out' = <<"Generating sprites into Assets.xcassets", "">>
    /\ gi' = 1
    /\ pc' = "loop"
    /\ UNCHANGED <<caller, todo, job, canvas, img, img2, rng, fs, exit, ref, prim>>

\* for name, gen in generators: print(f"  Generating {name}..."); gen()
MainLoop ==
    /\ pc = "loop"
    /\ gi <= Len(generators)
    /\ out' = Append(out, Progress(generators[gi].label))
    /\ todo' = generators[gi].gen
    /\ job' = generators[gi].gen[1]
    /\ pc' = "new"
    /\ UNCHANGED <<caller, gi, canvas, img, img2, rng, fs, exit, ref, prim>>

\* print(); print("Done! All assets generated."); the process ends normally
MainDone ==
    /\ pc = "loop"
    /\ gi > Len(generators)
    /\ out' = out \o <<"", "Done! All assets generated.">>
    /\ exit' = 0
    /\ pc' = "done"
    /\ UNCHANGED <<caller, gi, todo, job, canvas, img, img2, rng, fs, ref, prim>>

Next == MainStart \/ MainLoop \/ MainDone \/ SupersampleDraw \/ SaveAsset

Spec == Init /\ [][Next]_vars

(***************************************************************************)
(* SpecGen: the sprites of the batch rendered in any order                 *)
(***************************************************************************)
\* supersample_draw(w, h, draw_fn) as generator i calls it; the caller
\* drops the image it holds, or keeps it aside for a later comparison
RenderSprite ==
    /\ pc \in {"idle", "saved"}
    /\ \E i \in 1..Len(BatchSprites) : job' = BatchSprites[i]
    /\ \E keep \in BOOLEAN :
          ref' = IF keep /\ img # NoImage THEN [img |-> img, mixed |-> FALSE] ELSE ref
    /\ img' = NoImage
    /\ pc' = "new"
    /\ UNCHANGED <<caller, gi, todo, canvas, img2, rng, fs, out, exit, prim>>

NextGen == RenderSprite \/ SupersampleDraw

SpecGen == InitHarness /\ [][NextGen]_vars

(***************************************************************************)
(* SpecLib: supersample_draw and save_asset called with bounded inputs     *)
(***************************************************************************)
LibSizes == 1..MaxDim
LibName == "heart_full"
LibFn == Fn("heart", <<220, 40, 40, 255>>, "")

CallSupersampleDraw ==
    /\ pc \in {"idle", "saved"}
    /\ \E w \in LibSizes, h \in LibSizes : job' = Sprite(LibName, w, h, LibFn)
    /\ img' = NoImage
    /\ pc' = "new"
    /\ UNCHANGED <<caller, gi, todo, canvas, img2, rng, fs, out, exit, ref, prim>>

\* the image the bundle's @3x file holds, NoImage when it holds none
Stored3x(bundle, name) ==
    IF File3x(name) \in DOMAIN bundle.files /\ bundle.files[File3x(name)] # Truncated
    THEN bundle.files[File3x(name)]
    ELSE NoImage

\* save_asset(img, name); ref remembers what the bundle held before
CallSaveAsset ==
    /\ pc \in {"idle", "saved"}
    /\ img # NoImage
    /\ ref' = [img |-> Stored3x(fs[job.name], job.name), mixed |-> FALSE]
    /\ pc' = "mkdir"
    /\ UNCHANGED <<caller, gi, todo, job, canvas, img, img2, rng, fs, out, exit, prim>>

NextLib == CallSupersampleDraw \/ CallSaveAsset \/ SupersampleDraw \/ SaveAsset

SpecLib == InitHarness /\ [][NextLib]_vars

(***************************************************************************)
(* The drawing primitives                                                  *)
(*                                                                         *)
(* A surface records the calls handed to the drawing library (lib), the    *)
(* calls that changed pixels (painted) and whether an exception left the   *)
(* primitive (raised). What the library does with a box whose x1 < x0 or   *)
(* y1 < y0 depends on its version: it raises ValueError, paints nothing,   *)
(* or paints; `how` is that choice.                                        *)
(***************************************************************************)
Surface == [lib |-> <<>>, painted |-> <<>>, raised |-> FALSE]

LibraryVersions == {"raise", "skip", "paint"}

Inverted(box) == box[3] < box[1] \/ box[4] < box[2]

\* draw.ellipse(box, fill=colour) / draw.rounded_rectangle(box, ..., fill=colour)
LibShape(st, kind, box, colour, how) ==
    IF st.raised THEN st
    ELSE LET call == [kind |-> kind, box |-> box, colour |-> colour]
         IN  [lib |-> Append(st.lib, call),
              painted |-> IF Inverted(box) /\ how # "paint" THEN st.painted
                          ELSE Append(st.painted, call),
              raised |-> Inverted(box) /\ how = "raise"]

\* draw.line(points, fill=colour, width=width)
LibLine(st, points, colour, width) ==
    IF st.raised THEN st
    ELSE LET call == [kind |-> "line", box |-> points, colour |-> colour]
         IN  [st EXCEPT !.lib = Append(@, call), !.painted = Append(@, call)]

\* [ox - outline_w * s, oy - outline_w * s, ox2 + outline_w * s, oy2 + outline_w * s]
Enlarged(bbox, outline_w, s) ==
    <<bbox[1] - outline_w * s, bbox[2] - outline_w * s,
      bbox[3] + outline_w * s, bbox[4] + outline_w * s>>

outlined_ellipse(st, bbox, fill, outline, outline_w, s, how) ==
    LibShape(LibShape(st, "ellipse", Enlarged(bbox, outline_w, s), outline, how),
             "ellipse", bbox, fill, how)

outlined_rect(st, bbox, fill, outline, outline_w, s, how) ==
    LibShape(LibShape(st, "rounded_rectangle", Enlarged(bbox, outline_w, s), outline, how),
             "rounded_rectangle", bbox, fill, how)

outlined_circle(st, cx, cy, r, fill, outline, outline_w, s, how) ==
    outlined_ellipse(st, <<cx - r, cy - r, cx + r, cy + r>>, fill, outline, outline_w, s, how)

(***************************************************************************)
(* draw_text_outlined                                                      *)
(***************************************************************************)
\* the font the try/except chain ends with: the first file that loads, or
\* ImageFont.load_default()
Fonts == {"Helvetica.ttc", "SFNSDisplay.ttf", "default"}

\* draw.text(pos, text, font=font, fill=colour, anchor="mm")
TextCall(pos, text, font, colour) ==
    [kind |-> "text", box |-> pos, colour |-> colour, text |-> text, font |-> font]

LibText(st, pos, text, font, colour) ==
    [st EXCEPT !.lib = Append(@, TextCall(pos, text, font, colour)),
               !.painted = Append(@, TextCall(pos, text, font, colour))]

\* mutant: the comparison is strict
InOutlineStrict(dx, dy, ow) == dx * dx + dy * dy < ow * ow + 1

\* if dx * dx + dy * dy <= ow * ow + 1
InOutline(dx, dy, ow) == dx * dx + dy * dy <= ow * ow + 1

\* for dx in range(-ow, ow + 1): for dy in range(-ow, ow + 1): the offsets
\* in loop order that pass the test
OutlineOffsets(ow) ==
    LET side == 2 * ow + 1
        all == [n \in 1..(IF ow >= 0 THEN side * side ELSE 0) |->
                  <<((n - 1) \div side) - ow, ((n - 1) % side) - ow>>]
        Test(o) == InOutline(o[1], o[2], ow)
    IN  SelectSeq(all, Test)

\* draw.text((x + dx, y + dy), text, font=font, fill=outline_color, anchor="mm")
\* for each offset, in order
StampAll(st, offs, pos, text, font, colour) ==
    LET calls == [k \in 1..Len(offs) |->
                    TextCall(<<pos[1] + offs[k][1], pos[2] + offs[k][2]>>, text, font, colour)]
    IN  [st EXCEPT !.lib = @ \o calls, !.painted = @ \o calls]

\* draw_text_outlined(draw, pos, text, font_size, fill, outline_color, outline_w, s)
draw_text_outlined(st, pos, text, font, fill, outline_color, outline_w) ==
    LibText(StampAll(st, OutlineOffsets(outline_w), pos, text, font, outline_color),
            pos, text, font, fill)

\* if len(points) > 1: draw.line(points, fill=(80, 140, 220, 100), width=2 * s)
WaveRow(st, points, s) ==
    IF Len(points) > 1 THEN LibLine(st, points, <<80, 140, 220, 100>>, 2 * s) ELSE st

(***************************************************************************)
(* The colours the generators derive by arithmetic                         *)
(***************************************************************************)
Max(a, b) == IF a >= b THEN a ELSE b
Min(a, b) == IF a <= b THEN a ELSE b

\* mutant: the outline and the highlight are derived without the clamps
ButtonColoursUnclamped(c) ==
    <<<<c[1] - 40, c[2] - 40, c[3] - 40>>,
      <<c[1] + 40, c[2] + 40, c[3] + 40, 100>>>>

\* generate_button: outline and highlight of the button body
ButtonColours(c) ==
    <<<<Max(0, c[1] - 40), Max(0, c[2] - 40), Max(0, c[3] - 40)>>,
      <<Min(255, c[1] + 40), Min(255, c[2] + 40), Min(255, c[3] + 40), 100>>>>

\* mutant: the outline is darkened without the clamp at 0
HeartColoursUnclamped(c) ==
    <<<<c[1] - 60, c[2] - 60, c[3] - 60, c[4]>>,
      <<255, 255, 255, Min(255, c[4] \div 2)>>>>

\* generate_heart: outline_col and the highlight, c = (r, g, b, alpha)
HeartColours(c) ==
    <<<<Max(0, c[1] - 60), Max(0, c[2] - 60), Max(0, c[3] - 60), c[4]>>,
      <<255, 255, 255, Min(255, c[4] \div 2)>>>>

\* generate_gate_indicators: the highlight
GateIndicatorColours(c) ==
    <<<<Min(255, c[1] + 80), Min(255, c[2] + 80), Min(255, c[3] + 80), 140>>>>

\* generate_background_grass: color of a blade
GrassBladeColours(green_var) == <<<<60 + green_var, 160 + green_var, 30 + green_var, 120>>>>

\* generate_ditch_edge: fill of a speck of dirt
DitchSpeckColours(shade) == <<<<100 + shade, 60 + shade, 30 + shade>>>>

\* generate_gate_door: color of plank i (0-based)
GatePlankColours(i) ==
    LET shade == <<0, 10, -5, 8>>[i + 1]
    IN  <<<<150 + shade, 95 + shade, 45 + shade>>>>

\* the draw functions of the batch with code f
BatchFns(f) == {BatchSprites[i].fn : i \in {k \in 1..Len(BatchSprites) : BatchSprites[k].fn.f = f}}

\* the inclusive range of the k-th randint of the first loop of a draw function
DeclaredRange(f, k) ==
    LET rg == DrawPlan(Fn(f, <<1>>, ""), 4, 4, SUPERSAMPLE)[1].r[k]
    IN  rg[1]..rg[2]

(***************************************************************************)
(* The geometry of the draw functions                                      *)
(*                                                                         *)
(* For each draw function: the ellipse, rectangle, rounded_rectangle and   *)
(* arc calls it makes on a w x h canvas at scale s, in program order, as   *)
(* (kind, box) with the colour reduced to its role, and the radii it       *)
(* computes. Lines, polygons and text take points, not boxes, and are not  *)
(* listed. rand is the sequence of values the function's randint calls     *)
(* return, in program order.                                               *)
(***************************************************************************)
Geo(calls, radii) == [calls |-> calls, radii |-> radii]

\* one call of the drawing library with a box
BoxCall(kind, x0, y0, x1, y1) == <<[kind |-> kind, box |-> <<x0, y0, x1, y1>>, colour |-> "fill"]>>

\* the calls an outlined primitive hands to the library
OutlinedEllipseCalls(x0, y0, x1, y1, outline_w, s) ==
    outlined_ellipse(Surface, <<x0, y0, x1, y1>>, "fill", "outline", outline_w, s, "paint").lib

OutlinedCircleCalls(cx, cy, r, outline_w, s) ==
    outlined_circle(Surface, cx, cy, r, "fill", "outline", outline_w, s, "paint").lib

\* the calls of a loop of n iterations that makes m calls per iteration;
\* body[i] is the calls of iteration i
Repeat(n, m, body) ==
    [k \in 1..(n * m) |-> body[((k - 1) \div m) + 1][((k - 1) % m) + 1]]

\* math.cos of an angle given in hundredths of a radian, in thousandths
CosMilli(a) == SinMilli(a + 157)

\* math.radians(angle), in hundredths of a radian
Radians(angle) == (angle * 314) \div 180

\* draw_cow
CowGeo(w, h, s, rand) ==
    LET cx == w \div 2
        cy == h \div 2
        bw == 48 * s
        bh == 34 * s
        Spot(i) ==
            LET sx == cx + rand[3 * i - 2]
                sy == cy + rand[3 * i - 1]
                sr == rand[3 * i]
            IN  BoxCall("ellipse", sx - sr, sy - sr \div 2, sx + sr, sy + sr \div 2)
        Leg(i) ==
            LET lx_abs == cx + <<-28, -10, 10, 28>>[i] * s
                ly_top == cy + 20 * s
                ly_bot == cy + 40 * s
            IN  BoxCall("rounded_rectangle", lx_abs - 4 * s, ly_top, lx_abs + 4 * s, ly_bot)
                \o BoxCall("rounded_rectangle", lx_abs - 5 * s, ly_bot - 4 * s,
                           lx_abs + 5 * s, ly_bot + 2 * s)
        head_cy == cy - 26 * s
        Eye(i) ==
            LET ex_abs == cx + <<-7, 7>>[i] * s
                ey == head_cy - 4 * s
            IN  BoxCall("ellipse", ex_abs - 5 * s, ey - 5 * s, ex_abs + 5 * s, ey + 5 * s)
                \o BoxCall("ellipse", ex_abs - 5 * s, ey - 5 * s, ex_abs + 5 * s, ey + 5 * s)
                \o BoxCall("ellipse", ex_abs - 2 * s, ey - 3 * s, ex_abs + 2 * s, ey + 3 * s)
                \o BoxCall("ellipse", ex_abs - 1 * s, ey - 3 * s, ex_abs + 1 * s, ey - 1 * s)
        Ear(i) ==
            LET ear_cx == cx + <<-1, 1>>[i] * 15 * s
                ear_cy == head_cy - 6 * s
            IN  BoxCall("ellipse", ear_cx - 5 * s, ear_cy - 3 * s, ear_cx + 5 * s, ear_cy + 3 * s)
        \* points[-1]: t = 1, int(math.sin(2 * pi) * 8 * s) = 0
        tpx == cx + 46 * s + 12 * s
        tpy == cy - 5 * s - 15 * s
    IN  Geo(OutlinedEllipseCalls(cx - bw, cy - bh + 4 * s, cx + bw, cy + bh + 4 * s, 2, s)
            \o Repeat(4, 1, [i \in 1..4 |-> Spot(i)])
            \o Repeat(4, 2, [i \in 1..4 |-> Leg(i)])
            \o OutlinedCircleCalls(cx, head_cy, 16 * s, 2, s)
            \o OutlinedEllipseCalls(cx - 10 * s, head_cy + 2 * s, cx + 10 * s, head_cy + 14 * s,
                                    1, s)
            \o BoxCall("ellipse", cx - 5 * s, head_cy + 6 * s, cx - 2 * s, head_cy + 10 * s)
            \o BoxCall("ellipse", cx + 2 * s, head_cy + 6 * s, cx + 5 * s, head_cy + 10 * s)
            \o Repeat(2, 4, [i \in 1..2 |-> Eye(i)])
            \o Repeat(2, 1, [i \in 1..2 |-> Ear(i)])
            \o BoxCall("ellipse", tpx - 4 * s, tpy - 4 * s, tpx + 4 * s, tpy + 4 * s),
            [i \in 1..4 |-> rand[3 * i]] \o <<2 * s, 16 * s>>)

\* generate_cow_drowning: draw_fn
CowDrowningGeo(w, h, s, rand) ==
    LET cx == w \div 2
        cy == h \div 2 - 8 * s
        water_y == h \div 2 + 10 * s
        Wave(i) ==
            LET wx == (i - 1) * 8 * s
                wy == water_y + TruncDiv(SinMilli((wx * 100) \div (12 * s)) * 3 * s, 1000)
            IN  BoxCall("ellipse", wx, wy - 2 * s, wx + 6 * s, wy + 2 * s)
        bw == 42 * s
        bh == 24 * s
        Spot(i) ==
            LET sx == cx + rand[3 * i - 2]
                sy == cy + rand[3 * i - 1]
                sr == rand[3 * i]
            IN  BoxCall("ellipse", sx - sr, sy - sr \div 2, sx + sr, sy + sr \div 2)
        head_cy == cy - 20 * s
        Eye(i) ==
            LET ex_abs == cx + <<-6, 6>>[i] * s
                ey == head_cy - 2 * s
            IN  BoxCall("ellipse", ex_abs - 5 * s, ey - 6 * s, ex_abs + 5 * s, ey + 6 * s)
                \o BoxCall("ellipse", ex_abs - 5 * s, ey - 6 * s, ex_abs + 5 * s, ey + 6 * s)
                \o BoxCall("ellipse", ex_abs - 2 * s, ey - 2 * s, ex_abs + 2 * s, ey + 4 * s)
                \o BoxCall("ellipse", ex_abs - 1 * s, ey - 3 * s, ex_abs + 1 * s, ey - 1 * s)
    IN  Geo(BoxCall("rectangle", 0, water_y, w, h)
            \o Repeat(RangeLen(w, 8 * s), 1, [i \in 1..RangeLen(w, 8 * s) |-> Wave(i)])
            \o OutlinedEllipseCalls(cx - bw, cy - bh, cx + bw, cy + bh, 2, s)
            \o Repeat(3, 1, [i \in 1..3 |-> Spot(i)])
            \o OutlinedCircleCalls(cx, head_cy, 14 * s, 2, s)
            \o Repeat(2, 4, [i \in 1..2 |-> Eye(i)])
            \o BoxCall("arc", cx - 8 * s, head_cy + 4 * s, cx + 8 * s, head_cy + 14 * s),
            [i \in 1..3 |-> rand[3 * i]] \o <<14 * s>>)

\* generate_farmer: draw_fn
FarmerGeo(w, h, s) ==
    LET cx == w \div 2
        cy == h \div 2
        Leg(i) ==
            LET lx_abs == cx + <<-12, 12>>[i] * s
            IN  BoxCall("rounded_rectangle", lx_abs - 6 * s, cy + 36 * s, lx_abs + 6 * s,
                        cy + 65 * s)
                \o BoxCall("rounded_rectangle", lx_abs - 7 * s, cy + 58 * s, lx_abs + 8 * s,
                           cy + 68 * s)
        Arm(i) ==
            LET ax == cx + <<-1, 1>>[i] * 28 * s
            IN  BoxCall("rounded_rectangle", ax - 6 * s, cy, ax + 6 * s, cy + 30 * s)
                \o BoxCall("ellipse", ax - 7 * s, cy + 26 * s, ax + 7 * s, cy + 36 * s)
        head_cy == cy - 28 * s
        Eye(i) ==
            LET ex_abs == cx + <<-9, 9>>[i] * s
                ey == head_cy - 2 * s
            IN  BoxCall("ellipse", ex_abs - 5 * s, ey - 6 * s, ex_abs + 5 * s, ey + 6 * s)
                \o BoxCall("ellipse", ex_abs - 5 * s, ey - 6 * s, ex_abs + 5 * s, ey + 6 * s)
                \o BoxCall("ellipse", ex_abs - 2 * s, ey - 2 * s, ex_abs + 2 * s, ey + 3 * s)
                \o BoxCall("ellipse", ex_abs - 1 * s, ey - 3 * s, ex_abs + 1 * s, ey - 1 * s)
        hat_cy == head_cy - 24 * s
    IN  Geo(Repeat(2, 2, [i \in 1..2 |-> Leg(i)])
            \o OutlinedEllipseCalls(cx - 24 * s, cy - 10 * s, cx + 24 * s, cy + 42 * s, 2, s)
            \o BoxCall("rounded_rectangle", cx - 8 * s, cy + 16 * s, cx + 8 * s, cy + 28 * s)
            \o Repeat(2, 2, [i \in 1..2 |-> Arm(i)])
            \o OutlinedCircleCalls(cx, head_cy, 22 * s, 2, s)
            \o Repeat(2, 4, [i \in 1..2 |-> Eye(i)])
            \o BoxCall("arc", cx - 10 * s, head_cy + 4 * s, cx + 10 * s, head_cy + 16 * s)
            \o BoxCall("ellipse", cx - 3 * s, head_cy + 1 * s, cx + 3 * s, head_cy + 6 * s)
            \o BoxCall("ellipse", cx - 32 * s, hat_cy - 2 * s, cx + 32 * s, hat_cy + 10 * s)
            \o BoxCall("rounded_rectangle", cx - 18 * s, hat_cy - 20 * s, cx + 18 * s,
                       hat_cy + 4 * s)
            \o BoxCall("rectangle", cx - 18 * s, hat_cy - 4 * s, cx + 18 * s, hat_cy + 1 * s),
            <<3 * s, 2 * s, 2 * s, 3 * s, 22 * s, 4 * s>>)

\* generate_safe_pasture: draw_fn (the flowers; the draws of the 150 blades
\* come first)
SafePastureGeo(w, h, s, rand) ==
    LET Flower(i) ==
            LET o == 150 * 4 + 4 * (i - 1)
                fx == rand[o + 1]
                fy == rand[o + 2]
                fr == rand[o + 4]
                Petal(k) ==
                    LET angle == (k - 1) * 72
                        px == fx + TruncDiv(CosMilli(Radians(angle)) * fr, 1000)
                        py == fy + TruncDiv(SinMilli(Radians(angle)) * fr, 1000)
                    IN  BoxCall("ellipse", px - 2 * s, py - 2 * s, px + 2 * s, py + 2 * s)
            IN  Repeat(5, 1, [j \in 1..5 |-> Petal(j)])
                \o BoxCall("ellipse", fx - 2 * s, fy - 2 * s, fx + 2 * s, fy + 2 * s)
    IN  Geo(Repeat(30, 6, [i \in 1..30 |-> Flower(i)]),
            [i \in 1..30 |-> rand[150 * 4 + 4 * i]])

\* generate_ditch_water: draw_fn (the shimmer highlights)
DitchWaterGeo(w, h, s, rand) ==
    LET Shimmer(i) ==
            LET sx == rand[3 * i - 2]
                sy == rand[3 * i - 1]
                sw == rand[3 * i]
            IN  BoxCall("ellipse", sx, sy, sx + sw, sy + 2 * s)
    IN  Geo(Repeat(20, 1, [i \in 1..20 |-> Shimmer(i)]), <<>>)

\* generate_ditch_edge: draw_fn
DitchEdgeGeo(w, h, s, rand) ==
    LET Speck(i) ==
            LET x == rand[4 * i - 3]
                y == rand[4 * i - 2]
                r == rand[4 * i - 1]
            IN  BoxCall("ellipse", x - r, y - r, x + r, y + r)
    IN  Geo(BoxCall("rectangle", 0, 0, w, h) \o Repeat(80, 1, [i \in 1..80 |-> Speck(i)]),
            [i \in 1..80 |-> rand[4 * i - 1]])

\* generate_fence_post: draw_fn
FencePostGeo(w, h, s) ==
    Geo(BoxCall("rounded_rectangle", 2 * s, 0, w - 2 * s, h)
        \o BoxCall("ellipse", w \div 2 - 2 * s, 6 * s, w \div 2 + 2 * s, 10 * s),
        <<3 * s>>)

\* generate_fence_rail: draw_fn
FenceRailGeo(w, h, s) ==
    Geo(BoxCall("rounded_rectangle", 0, 2 * s, w, h - 2 * s), <<2 * s>>)

\* generate_gate_door: draw_fn
GateDoorGeo(w, h, s) ==
    LET plank_w == w \div 4
        Plank(k) ==
            LET px == (k - 1) * plank_w
            IN  BoxCall("rectangle", px + s, 2 * s, px + plank_w - s, h - 2 * s)
                \o BoxCall("rectangle", px + s, 2 * s, px + plank_w - s, h - 2 * s)
        Hinge(k) ==
            \* hy = int(h * hy_ratio) for hy_ratio in [0.2, 0.8]
            LET hy == IntTrunc(TrueDiv(h * <<2, 8>>[k], 10))
            IN  BoxCall("rounded_rectangle", 0, hy - 3 * s, 12 * s, hy + 3 * s)
                \o BoxCall("ellipse", 8 * s, hy - 2 * s, 12 * s, hy + 2 * s)
    IN  Geo(Repeat(4, 2, [i \in 1..4 |-> Plank(i)])
            \o Repeat(2, 2, [i \in 1..2 |-> Hinge(i)]),
            <<s, s>>)

\* generate_gate_post: draw_fn
GatePostGeo(w, h, s) ==
    Geo(BoxCall("rounded_rectangle", 3 * s, 8 * s, w - 3 * s, h)
        \o BoxCall("rounded_rectangle", 2 * s, 0, w - 2 * s, 12 * s),
        <<3 * s, 2 * s>>)

\* pr += random.randint(-3, 3) + (_v - 2) * 2; pr = max(12, pr)
PuffRadius(pr, jitter, v) == Max(12, pr + jitter + (v - 2) * 2)

\* generate_clouds: draw_fn of variant _v
CloudsGeo(w, h, s, v, rand) ==
    LET cx == w \div 2
        cy == h \div 2 + 10 * s
        puffs == << <<0, 0, 35>>, <<-30, 5, 28>>, <<25, 3, 30>>, <<-15, -10, 25>>,
                    <<18, -8, 22>>, <<35, 8, 20>>, <<-38, 10, 18>> >>
        R(i) == PuffRadius(puffs[i][3], rand[3 * i], v) * s
        Puff(i) ==
            LET x == cx + (puffs[i][1] + rand[3 * i - 2]) * s
                y == cy + (puffs[i][2] + rand[3 * i - 1]) * s
                r == R(i)
            IN  BoxCall("ellipse", x - r, y - r + 4 * s, x + r, y + r + 4 * s)
                \o BoxCall("ellipse", x - r, y - r, x + r, y + r)
        Highlight(k) ==
            LET p == << <<-5, -12, 20>>, <<10, -10, 18>> >>[k]
                x == cx + p[1] * s
                y == cy + p[2] * s
                r == (p[3] + (v - 2)) * s
            IN  BoxCall("ellipse", x - r, y - r, x + r, y + r)
    IN  Geo(Repeat(7, 2, [i \in 1..7 |-> Puff(i)]) \o Repeat(2, 1, [i \in 1..2 |-> Highlight(i)]),
            [i \in 1..7 |-> R(i)] \o <<(20 + (v - 2)) * s, (18 + (v - 2)) * s>>)

\* generate_title_logo: draw_fn
TitleLogoGeo(w, h, s) ==
    Geo(BoxCall("rounded_rectangle", 20 * s, 20 * s, w - 20 * s, h - 20 * s), <<20 * s>>)

\* generate_button: draw_fn
ButtonGeo(w, h, s) ==
    LET cy == h \div 2
    IN  Geo(BoxCall("rounded_rectangle", 8 * s, 12 * s, w - 8 * s, h - 4 * s)
            \o BoxCall("rounded_rectangle", 8 * s, 8 * s, w - 8 * s, h - 12 * s)
            \o BoxCall("rounded_rectangle", 16 * s, 12 * s, w - 16 * s, cy - 4 * s),
            <<20 * s, 20 * s, 14 * s>>)

\* generate_heart: draw_fn
HeartGeo(w, h, s) ==
    LET cx == w \div 2
        cy == h \div 2
        hr == 14 * s
        hl_r == 6 * s
    IN  Geo(BoxCall("ellipse", cx - hr * 2, cy - hr - 4 * s, cx, cy + hr \div 2 - 4 * s)
            \o BoxCall("ellipse", cx, cy - hr - 4 * s, cx + hr * 2, cy + hr \div 2 - 4 * s)
            \o BoxCall("ellipse", cx - hr * 2, cy - hr - 4 * s, cx, cy + hr \div 2 - 4 * s)
            \o BoxCall("ellipse", cx, cy - hr - 4 * s, cx + hr * 2, cy + hr \div 2 - 4 * s)
            \o BoxCall("ellipse", cx - 8 * s, cy - 10 * s, cx - 8 * s + hl_r * 2,
                       cy - 10 * s + hl_r),
            <<hr, hl_r>>)

\* generate_score_badge: draw_fn
ScoreBadgeGeo(w, h, s) ==
    Geo(BoxCall("rounded_rectangle", 4 * s, 4 * s, w - 4 * s, h - 4 * s)
        \o BoxCall("rounded_rectangle", 8 * s, 8 * s, w - 8 * s, h - 8 * s),
        <<16 * s, 14 * s>>)

\* generate_game_over_banner: draw_fn
GameOverBannerGeo(w, h, s) ==
    Geo(BoxCall("rounded_rectangle", 10 * s, 20 * s, w - 10 * s, h - 20 * s), <<16 * s>>)

\* generate_gate_indicators: draw_fn
GateIndicatorGeo(w, h, s) ==
    Geo(BoxCall("ellipse", 2 * s, 2 * s, w - 2 * s, h - 2 * s)
        \o BoxCall("ellipse", 6 * s, 6 * s, w - 6 * s, h - 6 * s)
        \o BoxCall("ellipse", 10 * s, 8 * s, w \div 2, h \div 2 - 2 * s),
        <<>>)

\* generate_particles: splash, dust, grass_blade, star, sparkle
ParticleGeo(f, w, h, s) ==
    LET cx == w \div 2
        cy == h \div 2
        r == 3 * s
    IN  CASE f = "splash" ->
               Geo(BoxCall("ellipse", cx - 5 * s, cy - 3 * s, cx + 5 * s, cy + 5 * s)
                   \o BoxCall("ellipse", cx - 2 * s, cy - 1 * s, cx + 1 * s, cy + 1 * s),
                   <<>>)
          [] f = "dust" ->
               Geo(BoxCall("ellipse", cx - 4 * s, cy - 4 * s, cx + 4 * s, cy + 4 * s)
                   \o BoxCall("ellipse", cx - 2 * s, cy - 2 * s, cx + 2 * s, cy + 2 * s),
                   <<>>)
          [] f = "star" -> Geo(<<>>, <<6 * s, 3 * s>>)
          [] f = "sparkle" ->
               Geo(BoxCall("ellipse", cx - r, cy - r, cx + r, cy + r)
                   \o BoxCall("ellipse", cx - r \div 2, cy - r \div 2, cx + r \div 2,
                              cy + r \div 2),
                   <<r>>)
          [] OTHER -> Geo(<<>>, <<>>)

\* the geometry of a draw function given the values its randint calls return
DrawGeo(fn, w, h, s, rand) ==
    CASE fn.f = "draw_cow" -> CowGeo(w, h, s, rand)
      [] fn.f = "cow_drowning" -> CowDrowningGeo(w, h, s, rand)
      [] fn.f = "farmer" -> FarmerGeo(w, h, s)
      [] fn.f = "background_grass" -> Geo(<<>>, <<>>)
      [] fn.f = "safe_pasture" -> SafePastureGeo(w, h, s, rand)
      [] fn.f = "ditch_water" -> DitchWaterGeo(w, h, s, rand)
      [] fn.f = "ditch_edge" -> DitchEdgeGeo(w, h, s, rand)
      [] fn.f = "fence_post" -> FencePostGeo(w, h, s)
      [] fn.f = "fence_rail" -> FenceRailGeo(w, h, s)
      [] fn.f = "gate_door" -> GateDoorGeo(w, h, s)
      [] fn.f = "gate_post" -> GatePostGeo(w, h, s)
      [] fn.f = "clouds" -> CloudsGeo(w, h, s, fn.v[1], rand)
      [] fn.f = "title_logo" -> TitleLogoGeo(w, h, s)
      [] fn.f = "button" -> ButtonGeo(w, h, s)
      [] fn.f = "heart" -> HeartGeo(w, h, s)
      [] fn.f = "score_badge" -> ScoreBadgeGeo(w, h, s)
      [] fn.f = "game_over_banner" -> GameOverBannerGeo(w, h, s)
      [] fn.f = "gate_indicator" -> GateIndicatorGeo(w, h, s)
      [] OTHER -> ParticleGeo(fn.f, w, h, s)

\* the ranges of the randint calls of a plan, one per call site
PlanRanges(plan) ==
    IF Len(plan) = 0 THEN <<>>
    ELSE IF Len(plan) = 1 THEN plan[1].r
    ELSE plan[1].r \o plan[2].r

\* the largest number of randint calls in one iteration of a loop of a plan
PlanVars(plan) ==
    LET lens == {Len(plan[k].r) : k \in 1..Len(plan)}
    IN  IF lens = {} THEN 0 ELSE CHOOSE m \in lens : \A x \in lens : x <= m

\* the calls of a draw function reach the library in order; a call with an
\* inverted box is rejected, skipped or painted as the library version has it
IssueAll(st, calls, how) ==
    LET bad == {k \in 1..Len(calls) : Inverted(calls[k].box)}
        first == IF bad = {} THEN 0 ELSE CHOOSE k \in bad : \A x \in bad : k <= x
        Paints(c) == ~Inverted(c.box) \/ how = "paint"
    IN  IF first # 0 /\ how = "raise"
        THEN [lib |-> st.lib \o SubSeq(calls, 1, first),
              painted |-> st.painted \o SubSeq(calls, 1, first - 1),
              raised |-> TRUE]
        ELSE [lib |-> st.lib \o calls,
              painted |-> st.painted \o SelectSeq(calls, Paints),
              raised |-> FALSE]

\* draw_func(img, draw, w, h, s) on a fresh surface: random.randint(lo, hi)
\* raises ValueError when lo > hi (the calls made before it are not listed)
RunDrawFunc(fn, w, h, s, rand, how) ==
    LET ranges == PlanRanges(DrawPlan(fn, w, h, s))
    IN  IF \E k \in 1..Len(ranges) : ranges[k][1] > ranges[k][2]
        THEN [Surface EXCEPT !.raised = TRUE]
        ELSE IssueAll(Surface, DrawGeo(fn, w, h, s, rand).calls, how)

(***************************************************************************)
(* SpecPrim: the primitives and colour derivations called with bounded     *)
(* inputs                                                                  *)
(***************************************************************************)
Coords == (0 - MaxCoord)..MaxCoord
Boxes == {<<x0, y0, x1, y1>> : x0 \in 0..MaxCoord, y0 \in {0, MaxCoord}, x1 \in 0..MaxCoord,
                               y1 \in {0, MaxCoord}}
Scales == {1, SUPERSAMPLE}
White == <<255, 255, 255>>
Dark == <<40, 40, 40>>

\* channel values a caller passes: the ends of the range and values next to
\* the points where the clamps start to act
Channels == {0, 39, 216, 255}

\* color arguments of generate_button and generate_heart: the batch's and
\* the triples over Channels
ColorArgs(f) ==
    {SubSeq(fn.v, 1, 3) : fn \in BatchFns(f)} \cup (Channels \X Channels \X Channels)

\* alpha arguments of generate_heart (default 255)
AlphaArgs == {fn.v[4] : fn \in BatchFns("heart")}

Called(op, args, st, colours) ==
    [op |-> op, args |-> args, lib |-> st.lib, painted |-> st.painted, raised |-> st.raised,
     colours |-> colours]

\* a call is made on a fresh surface
PrimIdle ==
    /\ pc = "idle"
    /\ pc' = "called"
    /\ UNCHANGED <<caller, gi, todo, job, canvas, img, img2, rng, fs, out, exit, ref>>

\* the caller drops the surface and the colours it got
DropSurface ==
    /\ pc = "called"
    /\ pc' = "idle"
    /\ prim' = NoPrim
    /\ UNCHANGED <<caller, gi, todo, job, canvas, img, img2, rng, fs, out, exit, ref>>

CallOutlinedEllipse ==
    /\ PrimIdle
    /\ \E bbox \in Boxes, ow \in 0..MaxOutline, s \in Scales, how \in LibraryVersions :
          prim' = Called("outlined_ellipse", <<bbox, ow, s>>,
                         outlined_ellipse(Surface, bbox, White, Dark, ow, s, how), <<>>)

CallOutlinedRect ==
    /\ PrimIdle
    /\ \E bbox \in Boxes, ow \in 0..MaxOutline, s \in Scales, how \in LibraryVersions :
          prim' = Called("outlined_rect", <<bbox, ow, s>>,
                         outlined_rect(Surface, bbox, White, Dark, ow, s, how), <<>>)

CallOutlinedCircle ==
    /\ PrimIdle
    /\ \E cx \in 0..MaxCoord, r \in Coords, ow \in 0..MaxOutline, s \in Scales,
          how \in LibraryVersions :
          prim' = Called("outlined_circle", <<cx, MaxCoord, r, ow, s>>,
                         outlined_circle(Surface, cx, MaxCoord, r, White, Dark, ow, s, how), <<>>)

\* outline widths of text: the small ones and the batch's 3 * s
TextOutlines == (0..MaxTextOutline) \cup {3 * SUPERSAMPLE}

CallDrawTextOutlined ==
    /\ PrimIdle
    /\ \E x \in {0, MaxCoord}, ow \in TextOutlines, font \in Fonts :
          prim' = Called("draw_text_outlined", <<<<x, MaxCoord>>, ow, font>>,
                         draw_text_outlined(Surface, <<x, MaxCoord>>, "PLAY", font, White, Dark,
                                            ow),
                         <<>>)

\* the value of a randint range picked as sample idx of 0..MaxSamples
Sample(rg, idx) == rg[1] + ((rg[2] - rg[1]) * idx) \div MaxSamples

\* the values a loop's randint calls return when call site j returns its
\* sample pick[j] at every iteration
BlockValues(b, pick) ==
    [n \in 1..BlockLen(b) |->
        Sample(b.r[((n - 1) % Len(b.r)) + 1], pick[((n - 1) % Len(b.r)) + 1])]

PlanValues(plan, pick) ==
    IF Len(plan) = 0 THEN <<>>
    ELSE IF Len(plan) = 1 THEN BlockValues(plan[1], pick)
    ELSE BlockValues(plan[1], pick) \o BlockValues(plan[2], pick)

\* the draw function of a sprite of the batch run on its canvas, its randint
\* calls returning sampled values of their ranges
CallDrawFn ==
    /\ PrimIdle
    /\ \E i \in 1..Len(BatchSprites) :
          LET sp == BatchSprites[i]
              w == CanvasSize(sp)[1]
              h == CanvasSize(sp)[2]
              plan == DrawPlan(sp.fn, w, h, SUPERSAMPLE)
              empty == \E k \in 1..Len(PlanRanges(plan)) :
                          PlanRanges(plan)[k][1] > PlanRanges(plan)[k][2]
          IN  \E pick \in [1..PlanVars(plan) -> 0..MaxSamples] :
                 LET rand == PlanValues(plan, pick)
                     args == [name |-> sp.name,
                              ranges |-> PlanRanges(plan),
                              rand |-> rand,
                              radii |-> IF empty THEN <<>>
                                        ELSE DrawGeo(sp.fn, w, h, SUPERSAMPLE, rand).radii]
                 IN  \E how \in LibraryVersions :
                        prim' = Called("draw_fn", args,
                                       RunDrawFunc(sp.fn, w, h, SUPERSAMPLE, rand, how), <<>>)

\* one row of the wave field of generate_ditch_water on a canvas w wide
CallWaveRow ==
    /\ PrimIdle
    /\ \E w \in 0..(8 * MaxCoord), s \in Scales, frame \in 1..3 :
          LET points == WavePoints(0, w, s, frame)
          IN  prim' = Called("polyline", points, WaveRow(Surface, points, s), <<>>)

DeriveButtonColours ==
    /\ PrimIdle
    /\ \E color \in ColorArgs("button") :
          prim' = Called("button", color, Surface, ButtonColours(color))

DeriveHeartColours ==
    /\ PrimIdle
    /\ \E color \in ColorArgs("heart"), alpha \in AlphaArgs :
          prim' = Called("heart", color \o <<alpha>>, Surface, HeartColours(color \o <<alpha>>))

DeriveGateIndicatorColours ==
    /\ PrimIdle
    /\ \E fn \in BatchFns("gate_indicator") :
          prim' = Called("gate_indicator", fn.v, Surface, GateIndicatorColours(fn.v))

DeriveGrassBladeColours ==
    /\ PrimIdle
    /\ \E green_var \in DeclaredRange("background_grass", 5) :
          prim' = Called("grass_blade", <<green_var>>, Surface, GrassBladeColours(green_var))

DeriveDitchSpeckColours ==
    /\ PrimIdle
    /\ \E shade \in DeclaredRange("ditch_edge", 4) :
          prim' = Called("ditch_speck", <<shade>>, Surface, DitchSpeckColours(shade))

DeriveGatePlankColours ==
    /\ PrimIdle
    /\ \E i \in 0..3 :
          prim' = Called("gate_plank", <<i>>, Surface, GatePlankColours(i))

NextPrim ==
    \/ DropSurface
    \/ CallOutlinedEllipse \/ CallOutlinedRect \/ CallOutlinedCircle \/ CallWaveRow
    \/ CallDrawTextOutlined \/ CallDrawFn
    \/ DeriveButtonColours \/ DeriveHeartColours \/ DeriveGateIndicatorColours
    \/ DeriveGrassBladeColours \/ DeriveDitchSpeckColours \/ DeriveGatePlankColours

SpecPrim == InitHarness /\ [][NextPrim]_vars

(***************************************************************************)
(* Properties                                                              *)
(***************************************************************************)
RECURSIVE SpritesUpTo(_)
\* the number of sprites the first g generators produce
SpritesUpTo(g) == IF g = 0 THEN 0 ELSE Len(generators[g].gen) + SpritesUpTo(g - 1)

\* main: the number of sprites whose save_asset has returned
DoneCount ==
    CASE gi = 0 -> 0
      [] pc \in {"loop", "done"} -> SpritesUpTo(gi - 1)
      [] OTHER -> SpritesUpTo(gi - 1) + Len(generators[gi].gen) - Len(todo)

EarlierFn == Fn("earlier", <<>>, "")

IsImageFile(bundle, file) == file \in DOMAIN bundle.files /\ bundle.files[file] # Truncated

\* C1: a sprite's draw function consumes the same sequence of random values
\* every time it runs, whatever ran before it: two results of rendering the
\* same sprite carry the same values.
C1_SameSpriteSameRandomValues ==
    (img # NoImage /\ ref # NoRef /\ ref.img.src.fn = img.src.fn)
        => img.src.rand = ref.img.src.rand

\* C1 witness: a seeded sprite was rendered twice, with another sprite that
\* draws random values rendered in between.
C1_RenderedTwiceWithOthersBetween ==
    /\ pc = "idle"
    /\ img.src.fn = Fn("fence_post", <<>>, "")
    /\ ref.img.src.fn = img.src.fn
    /\ ref.mixed
    /\ Len(img.src.rand) = 32

\* C2: the @2x image is filtered from the base image supersample_draw
\* returned (itself filtered from the 4x canvas the draw function drew on),
\* never from the canvas, and none exists while the sprite is still being
\* rendered or resampled to the base size.
C2_TwoStageChain ==
    /\ pc \in {"new", "draw", "resize"} => img2 = NoImage2
    /\ img2 # NoImage2 =>
          /\ img2.src = img
          /\ canvas = NoCanvas
          /\ img.w = job.w /\ img.h = job.h
          /\ img.src.w = 4 * job.w /\ img.src.h = 4 * job.h
          /\ img.src.fn = job.fn
    /\ \A n \in Names :
          IsImageFile(fs[n], n \o "@2x.png") =>
             LET f == fs[n].files[n \o "@2x.png"]
             IN  /\ "src" \in DOMAIN f.src
                 /\ f.src.src.w = 4 * f.src.w
                 /\ f.src.src.fn # EarlierFn =>
                       /\ IsImageFile(fs[n], n \o "@3x.png")
                       /\ f.src = fs[n].files[n \o "@3x.png"]

\* C2 witness: the @2x image of ditch_water_2 is about to be written.
C2_At2xFromBase ==
    /\ pc = "save2x"
    /\ job.name = "ditch_water_2"
    /\ img2.src = img
    /\ img.src.w = 2048

\* the largest base size C3 checks the size formula for
MaxBase == 1024

\* C3: the @2x image of a W x H base image is floor(W*2/3) x floor(H*2/3),
\* for the images save_asset makes and for every size up to MaxBase.
C3_At2xSizeIsFloor ==
    /\ img2 # NoImage2 =>
          /\ img2.w = (img.w * 2) \div 3
          /\ img2.h = (img.h * 2) \div 3
    /\ \A n \in Names :
          IsImageFile(fs[n], n \o "@2x.png") =>
             LET f == fs[n].files[n \o "@2x.png"]
             IN  f.w = (f.src.w * 2) \div 3 /\ f.h = (f.src.h * 2) \div 3
    /\ \A d \in 1..MaxBase :
          At2xSize([w |-> d, h |-> MaxBase + 1 - d]) = <<(d * 2) \div 3, ((MaxBase + 1 - d) * 2) \div 3>>

\* C3 witness: the 16 x 16 splash particle was saved with a 10 x 10 @2x file.
C3_SplashAt2xIs10 ==
    /\ IsImageFile(fs["particle_splash"], "particle_splash@2x.png")
    /\ fs["particle_splash"].files["particle_splash@2x.png"].src.src.fn # EarlierFn
    /\ fs["particle_splash"].files["particle_splash@2x.png"].src.w = 16
    /\ fs["particle_splash"].files["particle_splash@2x.png"].w = 10

\* C4: supersample_draw(W, H, f) allocates a (4W, 4H) canvas, calls f exactly
\* once with (4W, 4H, 4) and returns a W x H image; the canvas is larger than
\* the image.
C4_SupersampleDraw ==
    /\ pc = "draw" =>
          canvas.w = job.w * 4 /\ canvas.h = job.h * 4 /\ canvas.calls = 0
    /\ pc = "resize" =>
          /\ canvas.w = job.w * 4 /\ canvas.h = job.h * 4
          /\ canvas.calls = 1
          /\ canvas.args = <<job.w * 4, job.h * 4, 4>>
    /\ img # NoImage =>
          /\ img.w = job.w /\ img.h = job.h
          /\ img.src.w = 4 * img.w /\ img.src.h = 4 * img.h
          /\ img.src.w > img.w /\ img.src.h > img.h
          /\ img.src.calls = 1
          /\ img.src.args = <<4 * img.w, 4 * img.h, 4>>

\* C4 witness: supersample_draw(2, 3, f) has returned.
C4_Returned2x3 ==
    /\ pc = "idle"
    /\ img.w = 2 /\ img.h = 3
    /\ img.src.calls = 1

\* C5: once save_asset(img, name) has returned, the bundle of name holds the
\* manifest with the two entries (name@2x.png, universal, 2x) and
\* (name@3x.png, universal, 3x) and info version 1, and exactly the two
\* files they name; the hearts are 84 x 78 at @3x and 56 x 52 at @2x.
C5_BundleAfterSave ==
    \A k \in 1..DoneCount :
        LET n == BatchSprites[k].name
            b == fs[n]
            m == b.files["Contents.json"]
        IN  /\ b.exists
            /\ DOMAIN b.files = {"Contents.json", n \o "@2x.png", n \o "@3x.png"}
            /\ m.images = <<[filename |-> n \o "@2x.png", idiom |-> "universal", scale |-> "2x"],
                            [filename |-> n \o "@3x.png", idiom |-> "universal", scale |-> "3x"]>>
            /\ m.info.version = 1
            /\ {m.images[i].filename : i \in 1..Len(m.images)} = DOMAIN b.files \ {"Contents.json"}
            /\ b.files[n \o "@2x.png"] # Truncated /\ b.files[n \o "@3x.png"] # Truncated
            /\ n \in {"heart_full", "heart_empty"} =>
                  /\ b.files[n \o "@3x.png"].w = 84 /\ b.files[n \o "@3x.png"].h = 78
                  /\ b.files[n \o "@2x.png"].w = 56 /\ b.files[n \o "@2x.png"].h = 52

\* C5 witness: the save of heart_full has returned; its files are 84 x 78
\* and 56 x 52.
C5_HeartSaved ==
    /\ DoneCount = 21
    /\ BatchSprites[21].name = "heart_full"
    /\ fs["heart_full"].files["heart_full@3x.png"].src.fn = Fn("heart", <<220, 40, 40, 255>>, "")
    /\ fs["heart_full"].files["heart_full@2x.png"].w = 56

\* C6: when save_asset(img, name) has returned, the manifest and both files
\* of the bundle are those of img alone, whatever the bundle held before:
\* nothing, truncated files, the same image or another one.
C6_SaveOverwrites ==
    pc = "saved" =>
        fs[job.name] =
            [exists |-> TRUE,
             files |-> ("Contents.json" :>
                          [images |-> <<[filename |-> job.name \o "@2x.png",
                                         idiom |-> "universal", scale |-> "2x"],
                                        [filename |-> job.name \o "@3x.png",
                                         idiom |-> "universal", scale |-> "3x"]>>,
                           info |-> [author |-> "xcode", version |-> 1]])
                       @@ ((job.name \o "@3x.png") :> img)
                       @@ ((job.name \o "@2x.png") :>
                             [w |-> (img.w * 2) \div 3, h |-> (img.h * 2) \div 3, src |-> img])]

\* C6 witness: a save has returned over a bundle that held another image.
C6_SavedOverAnotherImage ==
    /\ pc = "saved"
    /\ ref.img # NoImage
    /\ ref.img # img

\* the labels main reports, in list order
ExpectedLabels ==
    <<"Cow walk sprites", "Cow drowning sprite", "Farmer sprite", "Background grass",
      "Safe pasture", "Ditch water (3 frames)", "Ditch edge", "Fence post", "Fence rail",
      "Gate door", "Gate post", "Clouds (3 variants)", "Title logo", "Play button",
      "Replay button", "Heart full", "Heart empty", "Score badge", "Game over banner",
      "Gate indicators", "Particle effects">>

ExpectedOut ==
    <<"Generating sprites into Assets.xcassets", "">>
    \o [i \in 1..21 |-> "  Generating " \o ExpectedLabels[i] \o "..."]
    \o <<"", "Done! All assets generated.">>

FreshlySaved(n) ==
    /\ DOMAIN fs[n].files = {"Contents.json", n \o "@2x.png", n \o "@3x.png"}
    /\ \A f \in {n \o "@2x.png", n \o "@3x.png"} : fs[n].files[f] # Truncated
    /\ fs[n].files[n \o "@3x.png"].src.fn # EarlierFn
    /\ fs[n].files[n \o "@2x.png"].src.src.fn # EarlierFn

\* C7: main runs its 21 entries in list order, printing each entry's
\* progress line before running it; the process ends with status 0 and the
\* completion message only after every generator completed, and with a
\* non-zero status and no completion message when a generation failed.
C7_BatchOrderAndExit ==
    /\ Len(out) <= Len(ExpectedOut)
    /\ out = SubSeq(ExpectedOut, 1, Len(out))
    /\ pc \in {"new", "draw", "resize", "mkdir", "manifest", "save3x", "resize2x", "save2x",
               "failed"} =>
          /\ gi \in 1..21
          /\ Len(out) = 2 + gi
          /\ job = BatchSprites[DoneCount + 1]
    /\ pc = "loop" => Len(out) = 1 + gi
    /\ \A k \in 1..DoneCount : FreshlySaved(BatchSprites[k].name)
    /\ exit # Running <=> pc \in {"done", "failed"}
    /\ pc = "done" =>
          /\ exit = 0
          /\ out = ExpectedOut
          /\ DoneCount = 31
    /\ pc = "failed" =>
          /\ exit # 0
          /\ \A i \in 1..Len(out) : out[i] # "Done! All assets generated."

\* C7 witness: the save of heart_empty failed after sixteen generators had
\* completed, and the process ended with status 1.
C7_FailedAtHeartEmpty ==
    /\ pc = "failed"
    /\ exit = 1
    /\ gi = 17
    /\ DoneCount = 21
    /\ out[Len(out)] = "  Generating Heart empty..."

\* C8: a polyline with fewer than two points, and an outlined circle or
\* ellipse whose radius is zero or negative, leave the canvas unmodified and
\* raise no error.
C8_DegenerateIsNoOp ==
    (\/ prim.op = "polyline" /\ Len(prim.args) < 2
     \/ prim.op = "outlined_circle" /\ prim.args[3] <= 0
     \/ prim.op = "outlined_ellipse"
          /\ (prim.args[1][3] <= prim.args[1][1] \/ prim.args[1][4] <= prim.args[1][2]))
        => (prim.painted = <<>> /\ ~prim.raised)

\* C9: every box outlined_ellipse and outlined_rect hand to the drawing
\* library has x0 <= x1 and y0 <= y1, whatever box they were given.
C9_BoxesNormalized ==
    prim.op \in {"outlined_ellipse", "outlined_rect"} =>
        \A i \in 1..Len(prim.lib) :
            prim.lib[i].box[1] <= prim.lib[i].box[3] /\ prim.lib[i].box[2] <= prim.lib[i].box[4]

\* C10: every channel of a colour a generator derives from a base colour
\* and an offset, or from a base colour and a random shade, is in 0..255.
C10_ChannelsInRange ==
    \A i \in 1..Len(prim.colours) :
        \A k \in 1..Len(prim.colours[i]) :
            prim.colours[i][k] >= 0 /\ prim.colours[i][k] <= 255

\* C10 witness: the outline of heart_full was derived from (220, 40, 40):
\* 40 - 60 is clamped to 0.
C10_HeartOutlineClamped ==
    /\ prim.op = "heart"
    /\ prim.args = <<220, 40, 40, 255>>
    /\ prim.colours[1] = <<160, 0, 0, 255>>

\* the @3x image the bundle of ditch_water_k holds
WaterFrame(k) ==
    fs[<<"ditch_water_1", "ditch_water_2", "ditch_water_3">>[k]].files[
        <<"ditch_water_1@3x.png", "ditch_water_2@3x.png", "ditch_water_3@3x.png">>[k]]

\* C11: generate_ditch_water renders exactly the frames 1, 2, 3 in that
\* order, each as ditch_water_k on a 512 x 160 base (2048 x 640 canvas), with
\* the generator seeded with k * 100 and the wave points at phase k * 2.1;
\* the saved frames have equal sizes and pairwise different random values
\* and wave fields.
C11_ThreeWaterFrames ==
    /\ job.fn.f = "ditch_water" => gi \in {6, 7}
    /\ (gi = 6 /\ pc # "loop") =>
          LET k == 4 - Len(todo)
          IN  /\ k \in 1..3
              /\ job.name = <<"ditch_water_1", "ditch_water_2", "ditch_water_3">>[k]
              /\ job.w = 512 /\ job.h = 160
              /\ job.fn.v = <<k>>
              /\ DoneCount = 5 + k
              /\ pc = "resize" =>
                    /\ canvas.w = 2048 /\ canvas.h = 640
                    /\ rng = [key |-> k * 100, ctr |-> 60]
                    /\ Len(canvas.rand) = 60
                    /\ Len(canvas.wave) = 14
                    /\ canvas.wave[1][1] = <<0, <<13, 0 - 13, 0>>[k]>>
                    /\ \A r \in 1..14 :
                          /\ Len(canvas.wave[r]) = 128
                          /\ \A i \in 1..128 :
                                canvas.wave[r][i] =
                                  <<(i - 1) * 16,
                                    (r - 1) * 48
                                    + TruncDiv(SinMilli(((i - 1) * 1600) \div 120 + k * 210) * 16,
                                               1000)>>
    /\ \A k \in 1..3 :
          DoneCount >= 6 + k =>
             /\ WaterFrame(k).w = 512 /\ WaterFrame(k).h = 160
             /\ WaterFrame(k).src.fn = [f |-> "ditch_water", v |-> <<k>>, t |-> ""]
             /\ \A a \in 1..(k - 1) :
                   /\ WaterFrame(a).src.rand # WaterFrame(k).src.rand
                   /\ WaterFrame(a).src.wave # WaterFrame(k).src.wave
                   /\ WaterFrame(a).src.w = WaterFrame(k).src.w
                   /\ WaterFrame(a).src.h = WaterFrame(k).src.h
    /\ DoneCount >= 10 => BatchSprites[10].fn.f # "ditch_water"

\* C11 witness: the three frames have been saved and main is back in its
\* loop; frame 3 starts its first wave row at height 0, frame 1 at 13.
C11_ThreeFramesSaved ==
    /\ pc = "loop"
    /\ gi = 7
    /\ WaterFrame(1).src.wave[1][1] = <<0, 13>>
    /\ WaterFrame(3).src.wave[1][1] = <<0, 0>>
    /\ WaterFrame(3).src.fn.v = <<3>>

\* C12 as stated: in generate_button, generate_heart and
\* generate_gate_indicators every outline (shadow) channel is max(0, c - 40)
\* and every highlight channel is min(255, c + 40) of the base channel c.
C12_OffsetIs40 ==
    /\ prim.op = "button" =>
          \A k \in 1..3 :
             /\ prim.colours[1][k] = (IF prim.args[k] >= 40 THEN prim.args[k] - 40 ELSE 0)
             /\ prim.colours[2][k] = (IF prim.args[k] <= 215 THEN prim.args[k] + 40 ELSE 255)
    /\ prim.op = "heart" =>
          \A k \in 1..3 :
             /\ prim.colours[1][k] = (IF prim.args[k] >= 40 THEN prim.args[k] - 40 ELSE 0)
             /\ prim.colours[2][k] = (IF prim.args[k] <= 215 THEN prim.args[k] + 40 ELSE 255)
    /\ prim.op = "gate_indicator" =>
          \A k \in 1..3 :
             prim.colours[1][k] = (IF prim.args[k] <= 215 THEN prim.args[k] + 40 ELSE 255)

\* C12 amended: the offset is fixed per generator. generate_button: outline
\* max(0, c - 40), highlight min(255, c + 40); generate_heart: outline
\* max(0, c - 60), highlight white; generate_gate_indicators: highlight
\* min(255, c + 80).
C12_OffsetPerGenerator ==
    /\ prim.op = "button" =>
          \A k \in 1..3 :
             /\ prim.colours[1][k] = (IF prim.args[k] >= 40 THEN prim.args[k] - 40 ELSE 0)
             /\ prim.colours[2][k] = (IF prim.args[k] <= 215 THEN prim.args[k] + 40 ELSE 255)
    /\ prim.op = "heart" =>
          \A k \in 1..3 :
             /\ prim.colours[1][k] = (IF prim.args[k] >= 60 THEN prim.args[k] - 60 ELSE 0)
             /\ prim.colours[2][k] = 255
    /\ prim.op = "gate_indicator" =>
          \A k \in 1..3 :
             prim.colours[1][k] = (IF prim.args[k] <= 175 THEN prim.args[k] + 80 ELSE 255)

\* C12 witness: a button colour whose outline is clamped at 0 in one channel
\* and whose highlight is clamped at 255 in another.
C12_ButtonClampedBothWays ==
    /\ prim.op = "button"
    /\ prim.args = <<39, 216, 255>>
    /\ prim.colours = << <<0, 176, 215>>, <<79, 255, 255, 100>> >>

\* the positions of the calls i..j of the last primitive, as a set
StampPositions(i, j) == {prim.lib[n].box : n \in i..j}

\* C13 as stated: draw_text_outlined stamps the text in the outline colour
\* at exactly the offsets with dx * dx + dy * dy <= ow * ow, each once, and
\* then once in the fill colour at the anchor, as its last call.
C13_StampsInDisk ==
    prim.op = "draw_text_outlined" =>
        LET pos == prim.args[1]
            ow == prim.args[2]
            n == Len(prim.lib)
            disk == {<<pos[1] + dx, pos[2] + dy>> :
                        <<dx, dy>> \in {o \in ((0 - ow)..ow) \X ((0 - ow)..ow) :
                                           o[1] * o[1] + o[2] * o[2] <= ow * ow}}
        IN  /\ n >= 1
            /\ StampPositions(1, n - 1) = disk
            /\ n - 1 = Cardinality(disk)
            /\ \A i \in 1..(n - 1) : prim.lib[i].colour = <<40, 40, 40>>
            /\ prim.lib[n].colour = <<255, 255, 255>>
            /\ prim.lib[n].box = pos

\* C13 amended: the outline stamps are at exactly the offsets of the square
\* -ow..ow with dx * dx + dy * dy <= ow * ow + 1, each once, in the outline
\* colour; the last call stamps the text once in the fill colour at the
\* anchor.
C13_StampsInWidenedDisk ==
    prim.op = "draw_text_outlined" =>
        LET pos == prim.args[1]
            ow == prim.args[2]
            n == Len(prim.lib)
            disk == {<<pos[1] + dx, pos[2] + dy>> :
                        <<dx, dy>> \in {o \in ((0 - ow)..ow) \X ((0 - ow)..ow) :
                                           o[1] * o[1] + o[2] * o[2] <= ow * ow + 1}}
        IN  /\ n >= 1
            /\ StampPositions(1, n - 1) = disk
            /\ n - 1 = Cardinality(disk)
            /\ \A i \in 1..(n - 1) :
                  prim.lib[i].colour = <<40, 40, 40>> /\ prim.lib[i].kind = "text"
            /\ prim.lib[n].colour = <<255, 255, 255>>
            /\ prim.lib[n].box = pos
            /\ prim.painted = prim.lib
            /\ ~prim.raised

\* C13 witness: with outline width 2 the text was stamped 21 times in the
\* outline colour (13 offsets in the disk and the 8 at distance sqrt(5)),
\* then once in the fill colour.
C13_Stamped21Plus1 ==
    /\ prim.op = "draw_text_outlined"
    /\ prim.args[2] = 2
    /\ Len(prim.lib) = 22
    /\ prim.lib[22].colour = <<255, 255, 255>>

\* the bbox, outline width and scale the last outlined primitive was given
PrimBox ==
    IF prim.op = "outlined_circle"
    THEN <<prim.args[1] - prim.args[3], prim.args[2] - prim.args[3],
           prim.args[1] + prim.args[3], prim.args[2] + prim.args[3]>>
    ELSE prim.args[1]

PrimGrow ==
    IF prim.op = "outlined_circle" THEN prim.args[4] * prim.args[5]
    ELSE prim.args[2] * prim.args[3]

\* C14: outlined_ellipse, outlined_rect and outlined_circle hand exactly two
\* calls to the drawing library: first the shape enlarged by outline_w * s
\* on every side in the outline colour, then the shape with the given bbox
\* in the fill colour.
C14_TwoCallsOutlineFirst ==
    prim.op \in {"outlined_ellipse", "outlined_rect", "outlined_circle"} =>
        /\ Len(prim.lib) = 2
        /\ prim.lib[1].box = <<PrimBox[1] - PrimGrow, PrimBox[2] - PrimGrow,
                               PrimBox[3] + PrimGrow, PrimBox[4] + PrimGrow>>
        /\ prim.lib[1].colour = <<40, 40, 40>>
        /\ prim.lib[2].box = PrimBox
        /\ prim.lib[2].colour = <<255, 255, 255>>
        /\ prim.lib[1].kind = prim.lib[2].kind
        /\ prim.lib[1].kind = (IF prim.op = "outlined_rect" THEN "rounded_rectangle"
                               ELSE "ellipse")

\* the file was written (fully or in part) in this run of main, not left by
\* an earlier one
WrittenNow3x(n) ==
    /\ (n \o "@3x.png") \in DOMAIN fs[n].files
    /\ \/ fs[n].files[n \o "@3x.png"] = Truncated
       \/ fs[n].files[n \o "@3x.png"].src.fn # EarlierFn

WrittenNow2x(n) ==
    /\ (n \o "@2x.png") \in DOMAIN fs[n].files
    /\ \/ fs[n].files[n \o "@2x.png"] = Truncated
       \/ fs[n].files[n \o "@2x.png"].src.src.fn # EarlierFn

\* C15: save_asset creates the directory, writes the manifest, then
\* name@3x.png, then name@2x.png: whenever a raster file of this run's save
\* is present (complete or cut short) the save's manifest is complete, and
\* whenever its @2x file is present its @3x file is complete; before the
\* step that writes a file, the save has not written it.
C15_ManifestThenRasters ==
    /\ \A n \in Names :
          /\ DOMAIN fs[n].files # {} => fs[n].exists
          /\ WrittenNow3x(n) =>
                /\ "Contents.json" \in DOMAIN fs[n].files
                /\ fs[n].files["Contents.json"] # Truncated
                /\ fs[n].files["Contents.json"].images[2].filename = n \o "@3x.png"
          /\ WrittenNow2x(n) =>
                /\ WrittenNow3x(n)
                /\ fs[n].files[n \o "@3x.png"] # Truncated
                /\ fs[n].files[n \o "@2x.png"] # Truncated =>
                      fs[n].files[n \o "@2x.png"].src = fs[n].files[n \o "@3x.png"]
    /\ pc \in {"new", "draw", "resize", "mkdir", "manifest"} =>
          ~WrittenNow3x(job.name) /\ ~WrittenNow2x(job.name)
    /\ pc = "manifest" => fs[job.name].exists
    /\ pc \in {"save3x", "resize2x", "save2x"} =>
          /\ fs[job.name].files["Contents.json"] # Truncated
          /\ ~WrittenNow2x(job.name)
    /\ pc = "save2x" => fs[job.name].files[job.name \o "@3x.png"] = img

\* C15 witness: the save of farmer into an empty catalogue was cut short by
\* the failure of its last write: the manifest and farmer@3x.png are
\* complete, farmer@2x.png is truncated.
C15_CutShortAtLastWrite ==
    /\ pc = "failed"
    /\ job.name = "farmer"
    /\ ~fs["particle_star"].exists
    /\ DOMAIN fs["farmer"].files = {"Contents.json", "farmer@2x.png", "farmer@3x.png"}
    /\ fs["farmer"].files["farmer@2x.png"] = Truncated
    /\ fs["farmer"].files["farmer@3x.png"] = img

\* the bundle of the k-th sprite holds what the save of that sprite wrote
HoldsOwnSave(k) ==
    LET sp == BatchSprites[k]
        b == fs[sp.name]
    IN  /\ b.exists
        /\ DOMAIN b.files = {"Contents.json", sp.name \o "@2x.png", sp.name \o "@3x.png"}
        /\ b.files["Contents.json"] # Truncated
        /\ b.files["Contents.json"].images[1].filename = sp.name \o "@2x.png"
        /\ b.files["Contents.json"].images[2].filename = sp.name \o "@3x.png"
        /\ b.files[sp.name \o "@3x.png"] # Truncated
        /\ b.files[sp.name \o "@3x.png"].w = sp.w
        /\ b.files[sp.name \o "@3x.png"].h = sp.h
        /\ b.files[sp.name \o "@3x.png"].src.fn = sp.fn
        /\ b.files[sp.name \o "@2x.png"] # Truncated
        /\ b.files[sp.name \o "@2x.png"].src = b.files[sp.name \o "@3x.png"]

\* the bundle of the k-th sprite is as it was when main started
Untouched(k) ==
    LET n == BatchSprites[k].name
    IN  \/ fs[n] = [exists |-> FALSE, files |-> <<>>]
        \/ /\ fs[n].exists
           /\ DOMAIN fs[n].files = {"Contents.json", n \o "@2x.png", n \o "@3x.png"}
           /\ fs[n].files[n \o "@3x.png"] # Truncated
           /\ fs[n].files[n \o "@3x.png"].src.fn = EarlierFn
           /\ fs[n].files[n \o "@2x.png"] # Truncated
           /\ fs[n].files[n \o "@2x.png"].src.src.fn = EarlierFn
           /\ fs[n].files["Contents.json"] # Truncated

\* C16: the 31 sprites of a run have pairwise distinct names and a save
\* writes only into the bundle of its own name: at every point of the run,
\* also after a failure, the bundle of every sprite saved so far holds that
\* sprite's own manifest and images, and the bundle of every sprite not yet
\* started is as it was before the run.
C16_SavesDoNotInterfere ==
    /\ Len(BatchSprites) = 31
    /\ \A a \in 1..31 : \A b \in 1..31 :
          a # b => BatchSprites[a].name # BatchSprites[b].name
    /\ \A k \in 1..DoneCount : HoldsOwnSave(k)
    /\ \A k \in (DoneCount + 2)..31 : Untouched(k)
    /\ pc \in {"start", "loop", "done", "new", "draw", "resize", "mkdir"} =>
          (DoneCount < 31 => Untouched(DoneCount + 1))
    /\ pc \in {"manifest", "save3x", "resize2x", "save2x", "failed"} =>
          job.name = BatchSprites[DoneCount + 1].name

\* C16 witness: the save of the last sprite failed and left a truncated
\* file in its own bundle; the thirty bundles written before it are intact.
C16_LastSpriteFailed ==
    /\ pc = "failed"
    /\ DoneCount = 30
    /\ job.name = "particle_sparkle"
    /\ "particle_sparkle@3x.png" \in DOMAIN fs["particle_sparkle"].files
    /\ fs["particle_sparkle"].files["particle_sparkle@3x.png"] = Truncated
    /\ HoldsOwnSave(1)
    /\ HoldsOwnSave(30)

\* C17: at SUPERSAMPLE = 4 and the batch's base sizes, whatever values the
\* randint calls return: every randint range has lo <= hi (fence_post 16..80,
\* fence_rail 12..60, gate_post 20..124), every box handed to an ellipse,
\* rectangle, rounded_rectangle or arc call has x0 <= x1 and y0 <= y1, no
\* call is rejected, every radius is positive and a cloud puff's radius is
\* at least 12 * s.
C17_GeometryValid ==
    prim.op = "draw_fn" =>
        /\ \A k \in 1..Len(prim.args.ranges) :
              prim.args.ranges[k][1] <= prim.args.ranges[k][2]
        /\ prim.args.name = "fence_post" => prim.args.ranges[1] = <<16, 80>>
        /\ prim.args.name = "fence_rail" => prim.args.ranges[1] = <<12, 60>>
        /\ prim.args.name = "gate_post" => prim.args.ranges[1] = <<20, 124>>
        /\ \A k \in 1..Len(prim.args.rand) :
              \E j \in 1..Len(prim.args.ranges) :
                 /\ prim.args.ranges[j][1] <= prim.args.rand[k]
                 /\ prim.args.rand[k] <= prim.args.ranges[j][2]
        /\ \A k \in 1..Len(prim.lib) :
              /\ prim.lib[k].box[1] <= prim.lib[k].box[3]
              /\ prim.lib[k].box[2] <= prim.lib[k].box[4]
        /\ ~prim.raised
        /\ prim.painted = prim.lib
        /\ \A k \in 1..Len(prim.args.radii) : prim.args.radii[k] > 0
        /\ prim.args.name \in {"cloud_1", "cloud_2", "cloud_3"} =>
              /\ Len(prim.args.radii) = 9
              /\ \A k \in 1..7 : prim.args.radii[k] >= 12 * 4

\* C17 witness: cloud_1 drawn with every draw at the low end of its range:
\* the smallest puff has radius (18 - 3 - 2) * 4 and all 16 ellipses were
\* painted.
C17_SmallestCloudPuff ==
    /\ prim.op = "draw_fn"
    /\ prim.args.name = "cloud_1"
    /\ prim.args.rand[21] = 0 - 3
    /\ prim.args.radii[7] = 52
    /\ Len(prim.painted) = 16

====
